---- MODULE Spec2Model ----
(***************************************************************************)
(* State-machine model of src/app.py: a Telegram bot that relays each text *)
(* message to a hosted assistant (OpenAI Assistants API), polls the run    *)
(* and replies with the newest thread message.                             *)
(*                                                                         *)
(* Handlers are coroutines on the Application's event loop.  A handler     *)
(* gives up the loop only at an await of platform I/O (lines 50, 55, 72,   *)
(* 96, 100); the assistant client calls and time.sleep (lines 47, 76-92)   *)
(* are synchronous and keep the loop, so nothing else runs meanwhile.      *)
(* The Application is built at line 107 without concurrent_updates, so the *)
(* dispatcher awaits each handler before it takes the next update: updates *)
(* are handled one at a time, in arrival order.  Updates fetched while a   *)
(* handler is suspended wait in the dispatcher's queue ("pending").        *)
(***************************************************************************)
EXTENDS Integers, Sequences, FiniteSets, TLC

\* ---- bounds of the model ----
MaxTasks == 3        \* handler invocations (updates received)
MaxPolls == 2        \* getRunStatus polls per invocation
MaxMsgs  == 2        \* entries kept per remote thread (newest first)

Tasks   == 1..MaxTasks
ChatIds == {41, 42}
Texts   == {"hello"}

\* ---- user-facing texts ----
GREETING == "Ciao <mention>! Sono pronto a parlare con te. Scrivimi qualcosa."
APOLOGY  == "Scusa, non riesco a inizializzare la nostra conversazione. Riprova piu tardi."
GENERIC  == "Ops, qualcosa e andato storto. Ho informato i miei creatori!"

\* ---- the assistant service (external) ----
Statuses    == {"queued", "in_progress", "completed", "failed", "expired"}
NonTerminal == {"queued", "in_progress"}
TextBlock(v) == [type |-> "text", value |-> v]
ImageBlock   == [type |-> "image_file", value |-> ""]
AssistantContents == {<<TextBlock("Hi Ada!")>>, <<ImageBlock>>, <<>>}

Min(a, b) == IF a < b THEN a ELSE b

\* ---- configuration, lines 13-15 ----
ConfigNames == {"TELEGRAM_TOKEN", "OPENAI_API_KEY", "ASSISTANT_ID"}
\* os.getenv gives None for an unset variable, else its string
EnvValues == {"None", "", "value"}
\* truth value of an os.getenv result
Truthy(v) == v \notin {"None", ""}

VARIABLES
    boot,           \* process start-up: environment, phase, client, handlers, report
    user_threads,   \* dict chat_id -> thread id (line 30)
    threads,        \* remote: threads[id] = messages of thread id, newest first
    pc,             \* pc[t]: position of invocation t
    local,          \* local[t]: local variables of invocation t
    calls,          \* calls[t]: outbound calls issued by invocation t, in order
    delivered       \* delivered[t]: reply texts the platform accepted from t

vars == <<boot, user_threads, threads, pc, local, calls, delivered>>

NoLocal == [kind |-> "none", chat_id |-> 0, user_text |-> "", via_message |-> FALSE,
            before |-> << >>, thread_id |-> 0, run_id |-> 0, status |-> "none", seen |-> << >>, messages |-> << >>,
            response |-> "", exc |-> "", caught_after |-> 0, escaped |-> ""]

Call(op, th, txt) == [op |-> op, thread |-> th, text |-> txt, run |-> 0]
\* a remote call that names a run
RunCall(op, th, r) == [op |-> op, thread |-> th, text |-> "", run |-> r]

Init ==
    /\ \E e \in [ConfigNames -> EnvValues] :
         boot = [env |-> e, phase |-> "check", client |-> FALSE, handlers |-> {},
                 logged |-> {}, error |-> {}, raised |-> FALSE]
    /\ user_threads = << >>
    /\ threads = << >>
    /\ pc = [t \in Tasks |-> "idle"]
    /\ local = [t \in Tasks |-> NoLocal]
    /\ calls = [t \in Tasks |-> << >>]
    /\ delivered = [t \in Tasks |-> << >>]

\* variant: the assignment replaces the whole dictionary
DictSet_reset(d, k, v) == [x \in {k} |-> v]

\* variant: an existing entry is kept (setdefault instead of assignment)
DictSet_keep(d, k, v) == IF k \in DOMAIN d THEN d
                         ELSE [x \in (DOMAIN d) \cup {k} |-> IF x = k THEN v ELSE d[x]]

\* dict assignment d[k] = v
DictSet(d, k, v) == [x \in (DOMAIN d) \cup {k} |-> IF x = k THEN v ELSE d[x]]

\* the remote thread's list after a new message is added (newest first)
Prepend(m, s) == SubSeq(<<m>> \o s, 1, Min(Len(s) + 1, MaxMsgs))

Issue(t, c) == calls' = [calls EXCEPT ![t] = Append(@, c)]

\* an exception with detail e is raised inside a try block after n calls were
\* issued: locals as the except clause finds them
Raise(t, e, n) == local' = [local EXCEPT ![t].exc = e, ![t].caught_after = n]

\* an exception raised by the awaited platform call op leaves the handler
Escape(t, op) == local' = [local EXCEPT ![t].escaped = op]

\* ---- module start-up, lines 13-25, and main, lines 104-116 ----
\* variant: any() instead of all()
ConfigComplete_any(env) == \E n \in ConfigNames : Truthy(env[n])

\* line 18: all([TELEGRAM_TOKEN, OPENAI_API_KEY, ASSISTANT_ID])
ConfigComplete(env) == \A n \in ConfigNames : Truthy(env[n])

\* line 20: the names the critical log line mentions
LoggedNames(env) == ConfigNames

\* line 22: the names the ValueError message mentions
ErrorNames(env) == {}

\* lines 18-22: the check of the environment; on failure log and raise
config_check ==
    /\ boot.phase = "check"
    /\ IF ConfigComplete(boot.env)
       THEN boot' = [boot EXCEPT !.phase = "configured"]
       ELSE boot' = [boot EXCEPT !.phase = "failed", !.raised = TRUE,
                                 !.logged = LoggedNames(boot.env),
                                 !.error = ErrorNames(boot.env)]
    /\ UNCHANGED <<user_threads, threads, pc, local, calls, delivered>>

\* line 25: the assistant client is created
create_client ==
    /\ boot.phase = "configured"
    /\ boot' = [boot EXCEPT !.phase = "imported", !.client = TRUE]
    /\ UNCHANGED <<user_threads, threads, pc, local, calls, delivered>>

\* lines 107-116: main builds the application, registers both handlers and polls
main ==
    /\ boot.phase = "imported"
    /\ boot' = [boot EXCEPT !.phase = "polling", !.handlers = {"start", "message"}]
    /\ UNCHANGED <<user_threads, threads, pc, local, calls, delivered>>

\* invocation t is in a synchronous stretch of its handler and holds the
\* event loop (lines 45-49, 53-54, 74-95, 98-99)
HoldsLoop(t) == pc[t] \in {"start", "start_except", "append", "start_run", "loop",
                           "list", "extract", "except"}

\* ---- dispatcher: main(), lines 107-116 ----
\* the updater fetches an update; line 109 routes /start to start, line 110 any
\* other text to handle_message
Dispatch(t) ==
    /\ boot.phase = "polling"
    /\ pc[t] = "idle"
    /\ \A u \in Tasks : ~HoldsLoop(u)
    /\ \A u \in Tasks : u < t => pc[u] # "idle"
    /\ pc' = [pc EXCEPT ![t] = "pending"]
    /\ \E c \in ChatIds :
         \/ /\ "start" \in boot.handlers
            /\ local' = [local EXCEPT ![t].kind = "start", ![t].chat_id = c]
         \/ \E x \in Texts :
              /\ "message" \in boot.handlers
              /\ local' = [local EXCEPT ![t].kind = "message", ![t].chat_id = c,
                                        ![t].user_text = x]
    /\ UNCHANGED <<user_threads, threads, calls, delivered>>
    /\ UNCHANGED boot

\* an invocation that has returned or raised
Finished(t) == pc[t] \in {"done", "raised", "gone"}

\* the dispatcher starts the handler of update t once every earlier update has
\* been handled (line 116, run_polling)
Turn(t) == pc[t] = "pending" /\ \A u \in Tasks : u < t => Finished(u)

\* the frames of the finished invocations are released when the next one starts
Drop(f, t, v, empty) == [u \in Tasks |-> IF u = t THEN v
                                        ELSE IF Finished(u) THEN empty ELSE f[u]]

\* ---- start, lines 40-55 ----
\* lines 40-43: the handler is entered
start_entry(t) ==
    /\ Turn(t)
    /\ local[t].kind = "start"
    /\ pc' = Drop(pc, t, "start", "gone")
    /\ local' = Drop(local, t, [local[t] EXCEPT !.before = user_threads], NoLocal)
    /\ calls' = Drop(calls, t, << >>, << >>)
    /\ delivered' = Drop(delivered, t, << >>, << >>)
    /\ UNCHANGED <<user_threads, threads>>
    /\ UNCHANGED boot

\* lines 45-50: createThread, registry assignment, greeting handed to the platform
start_create(t) ==
    /\ pc[t] = "start"
    /\ \/ /\ threads' = Append(threads, << >>)
          /\ user_threads' = DictSet(user_threads, local[t].chat_id, Len(threads) + 1)
          /\ calls' = [calls EXCEPT ![t] = @ \o <<Call("createThread", Len(threads) + 1, ""),
                                                  Call("reply", 0, GREETING)>>]
          /\ pc' = [pc EXCEPT ![t] = "await_greeting"]
          /\ UNCHANGED local
       \/ /\ Raise(t, "AssistantUnavailable", Len(calls[t]) + 1)
          /\ Issue(t, Call("createThread", 0, ""))
          /\ pc' = [pc EXCEPT ![t] = "start_except"]
          /\ UNCHANGED <<threads, user_threads>>
    /\ UNCHANGED delivered
    /\ UNCHANGED boot

\* variant: line 68 (return) is missing, handle_message goes on to the relay
AfterBootstrap_fallthrough(l) == IF l.via_message THEN "append" ELSE "done"

\* where control goes when start returns: to the dispatcher, or to line 68 of
\* handle_message, which returns
AfterBootstrap(l) == "done"

\* line 50: the awaited reply_html returns or raises
greeting_done(t) ==
    /\ pc[t] = "await_greeting"
    /\ \/ /\ delivered' = [delivered EXCEPT ![t] = Append(@, GREETING)]
          /\ pc' = [pc EXCEPT ![t] = AfterBootstrap(local[t])]
          /\ UNCHANGED local
       \/ /\ Raise(t, "SendFailed", Len(calls[t]))
          /\ pc' = [pc EXCEPT ![t] = "start_except"]
          /\ UNCHANGED delivered
    /\ UNCHANGED <<user_threads, threads, calls>>
    /\ UNCHANGED boot

\* variant: the except clause logs and re-raises
start_except_reraise(t) ==
    /\ pc[t] = "start_except"
    /\ Escape(t, "createThread")
    /\ pc' = [pc EXCEPT ![t] = "raised"]
    /\ UNCHANGED <<user_threads, threads, calls, delivered>>
    /\ UNCHANGED boot

\* lines 53-55: log, hand the apology to the platform
start_except(t) ==
    /\ pc[t] = "start_except"
    /\ Issue(t, Call("reply", 0, APOLOGY))
    /\ pc' = [pc EXCEPT ![t] = "await_apology"]
    /\ UNCHANGED <<user_threads, threads, local, delivered>>
    /\ UNCHANGED boot

\* line 55: the awaited reply_text returns or raises (outside any try)
apology_done(t) ==
    /\ pc[t] = "await_apology"
    /\ \/ /\ delivered' = [delivered EXCEPT ![t] = Append(@, APOLOGY)]
          /\ pc' = [pc EXCEPT ![t] = AfterBootstrap(local[t])]
          /\ UNCHANGED local
       \/ /\ Escape(t, "reply_text")
          /\ pc' = [pc EXCEPT ![t] = "raised"]
          /\ UNCHANGED delivered
    /\ UNCHANGED <<user_threads, threads, calls>>
    /\ UNCHANGED boot

\* ---- handle_message, lines 57-100 ----
\* lines 57-72: session lookup; auto-bootstrap, or typing indicator
handle_message_entry(t) ==
    /\ Turn(t)
    /\ local[t].kind = "message"
    /\ IF local[t].chat_id \notin DOMAIN user_threads
       THEN /\ local' = Drop(local, t, [local[t] EXCEPT !.via_message = TRUE,
                                                        !.before = user_threads],
                             NoLocal)
            /\ pc' = Drop(pc, t, "start", "gone")
            /\ calls' = Drop(calls, t, << >>, << >>)
       ELSE /\ local' = Drop(local, t, [local[t] EXCEPT
                                          !.thread_id = user_threads[local[t].chat_id],
                                          !.before = user_threads],
                             NoLocal)
            /\ pc' = Drop(pc, t, "await_typing", "gone")
            /\ calls' = Drop(calls, t, <<Call("typing", 0, "")>>, << >>)
    /\ delivered' = Drop(delivered, t, << >>, << >>)
    /\ UNCHANGED <<user_threads, threads>>
    /\ UNCHANGED boot

\* line 72: the awaited send_chat_action returns or raises (outside the try)
typing_done(t) ==
    /\ pc[t] = "await_typing"
    /\ \/ /\ pc' = [pc EXCEPT ![t] = "append"]
          /\ UNCHANGED local
       \/ /\ Escape(t, "send_chat_action")
          /\ pc' = [pc EXCEPT ![t] = "raised"]
    /\ UNCHANGED <<user_threads, threads, calls, delivered>>
    /\ UNCHANGED boot

\* line 76: messages.create
append_message(t) ==
    /\ pc[t] = "append"
    /\ Issue(t, Call("appendMessage", local[t].thread_id, local[t].user_text))
    /\ \/ /\ threads' = [threads EXCEPT ![local[t].thread_id] =
                           Prepend([role |-> "user",
                                    content |-> <<TextBlock(local[t].user_text)>>], @)]
          /\ pc' = [pc EXCEPT ![t] = "start_run"]
          /\ UNCHANGED local
       \/ /\ \E e \in {"AssistantUnavailable", "InvalidThread"} :
               Raise(t, e, Len(calls[t]) + 1)
          /\ pc' = [pc EXCEPT ![t] = "except"]
          /\ UNCHANGED threads
    /\ UNCHANGED <<user_threads, delivered>>
    /\ UNCHANGED boot

\* the assistant service: a run reported completed may have posted a message
RemoteRun(th, s) ==
    IF s = "completed"
    THEN \/ UNCHANGED threads
         \/ \E c \in AssistantContents :
              threads' = [threads EXCEPT ![th] =
                            Prepend([role |-> "assistant", content |-> c], @)]
    ELSE UNCHANGED threads

\* the id the assistant service gives the run that invocation t starts
NewRunId(t) == t

\* line 79: runs.create
start_run(t) ==
    /\ pc[t] = "start_run"
    /\ Issue(t, Call("startRun", local[t].thread_id, boot.env["ASSISTANT_ID"]))
    /\ \/ \E s \in Statuses :
            /\ local' = [local EXCEPT ![t].status = s, ![t].seen = Append(@, s),
                                      ![t].run_id = NewRunId(t)]
            /\ RemoteRun(local[t].thread_id, s)
            /\ pc' = [pc EXCEPT ![t] = "loop"]
       \/ /\ Raise(t, "AssistantUnavailable", Len(calls[t]) + 1)
          /\ pc' = [pc EXCEPT ![t] = "except"]
          /\ UNCHANGED threads
    /\ UNCHANGED <<user_threads, delivered>>
    /\ UNCHANGED boot

\* variant: the loop runs until the run is completed
LoopContinues_untilCompleted(status) == status # "completed"

\* line 82: the loop test
LoopContinues(status) == status \in {"queued", "in_progress"}

\* variant: the poll names no run
PolledRun_none(l) == 0

\* line 84: run_id=run.id, the retrieved run keeps the id it was asked by
PolledRun(l) == l.run_id

\* lines 82-84: loop test true, sleep, runs.retrieve
poll(t) ==
    /\ pc[t] = "loop"
    /\ LoopContinues(local[t].status)
    /\ Len(local[t].seen) <= MaxPolls
    /\ Issue(t, RunCall("getRunStatus", local[t].thread_id, PolledRun(local[t])))
    /\ \/ \E s \in Statuses :
            /\ local' = [local EXCEPT ![t].status = s, ![t].seen = Append(@, s)]
            /\ RemoteRun(local[t].thread_id, s)
            /\ UNCHANGED pc
       \/ /\ Raise(t, "AssistantUnavailable", Len(calls[t]) + 1)
          /\ pc' = [pc EXCEPT ![t] = "except"]
          /\ UNCHANGED threads
    /\ UNCHANGED <<user_threads, delivered>>
    /\ UNCHANGED boot

\* lines 82-84 once the recorded history is full: the run goes on reporting
\* queued or in_progress, and the newest observation replaces the last one
poll_on(t) ==
    /\ pc[t] = "loop"
    /\ LoopContinues(local[t].status)
    /\ Len(local[t].seen) > MaxPolls
    /\ \E s \in NonTerminal :
         local' = [local EXCEPT ![t].status = s,
                                ![t].seen = [@ EXCEPT ![Len(@)] = s]]
    /\ UNCHANGED <<user_threads, threads, pc, calls, delivered>>
    /\ UNCHANGED boot

\* variant: the failed check of lines 87-89 is missing
RunFailed_never(status) == FALSE

\* line 87: the failed check
RunFailed(status) == status = "failed"

\* lines 82, 87-89: loop test false, then the failed check
\* variant: the loop gives up on a run that is still queued or in progress
loop_exit_deadline(t) ==
    /\ pc[t] = "loop"
    /\ pc' = [pc EXCEPT ![t] = "list"]
    /\ UNCHANGED <<user_threads, threads, local, calls, delivered>>
    /\ UNCHANGED boot

loop_exit(t) ==
    /\ pc[t] = "loop"
    /\ ~LoopContinues(local[t].status)
    /\ IF RunFailed(local[t].status)
       THEN /\ Raise(t, "RunFailed", Len(calls[t]))
            /\ pc' = [pc EXCEPT ![t] = "except"]
       ELSE /\ pc' = [pc EXCEPT ![t] = "list"]
            /\ UNCHANGED local
    /\ UNCHANGED <<user_threads, threads, calls, delivered>>
    /\ UNCHANGED boot

\* line 92: messages.list
list_messages(t) ==
    /\ pc[t] = "list"
    /\ Issue(t, Call("listMessages", local[t].thread_id, ""))
    /\ \/ /\ local' = [local EXCEPT ![t].messages = threads[local[t].thread_id]]
          /\ pc' = [pc EXCEPT ![t] = "extract"]
       \/ /\ Raise(t, "AssistantUnavailable", Len(calls[t]) + 1)
          /\ pc' = [pc EXCEPT ![t] = "except"]
    /\ UNCHANGED <<user_threads, threads, delivered>>
    /\ UNCHANGED boot

\* line 95: messages.data[0].content[0].text.value
Extractable(messages) ==
    /\ Len(messages) > 0
    /\ Len(messages[1].content) > 0
    /\ messages[1].content[1].type = "text"

\* variant: the last entry of the list is read (messages.data[-1])
ExtractText_last(messages) == messages[Len(messages)].content[1].value

ExtractText(messages) == messages[1].content[1].value

\* lines 95-96: extraction, reply handed to the platform
extract_reply(t) ==
    /\ pc[t] = "extract"
    /\ IF Extractable(local[t].messages)
       THEN /\ local' = [local EXCEPT ![t].response = ExtractText(local[t].messages)]
            /\ Issue(t, Call("reply", 0, ExtractText(local[t].messages)))
            /\ pc' = [pc EXCEPT ![t] = "await_reply"]
       ELSE /\ Raise(t, "MalformedContent", Len(calls[t]))
            /\ pc' = [pc EXCEPT ![t] = "except"]
            /\ UNCHANGED calls
    /\ UNCHANGED <<user_threads, threads, delivered>>
    /\ UNCHANGED boot

\* line 96: the awaited reply_text returns or raises (inside the try)
reply_done(t) ==
    /\ pc[t] = "await_reply"
    /\ \/ /\ delivered' = [delivered EXCEPT ![t] = Append(@, local[t].response)]
          /\ pc' = [pc EXCEPT ![t] = "done"]
          /\ UNCHANGED local
       \/ /\ Raise(t, "SendFailed", Len(calls[t]))
          /\ pc' = [pc EXCEPT ![t] = "except"]
          /\ UNCHANGED delivered
    /\ UNCHANGED <<user_threads, threads, calls>>
    /\ UNCHANGED boot

\* variant: the exception text is sent to the user (reply_text(str(e)))
FailureReply_detail(e) == e

\* line 100: the text handed to the platform in the except branch
FailureReply(e) == GENERIC

\* variant: the except clause only logs
handle_except_silent(t) ==
    /\ pc[t] = "except"
    /\ pc' = [pc EXCEPT ![t] = "done"]
    /\ UNCHANGED <<user_threads, threads, local, calls, delivered>>
    /\ UNCHANGED boot

\* lines 98-100: log, hand the generic failure message to the platform
handle_except(t) ==
    /\ pc[t] = "except"
    /\ Issue(t, Call("reply", 0, FailureReply(local[t].exc)))
    /\ pc' = [pc EXCEPT ![t] = "await_failure_reply"]
    /\ UNCHANGED <<user_threads, threads, local, delivered>>
    /\ UNCHANGED boot

\* line 100: the awaited reply_text returns or raises (outside any try)
failure_reply_done(t) ==
    /\ pc[t] = "await_failure_reply"
    /\ \/ /\ delivered' = [delivered EXCEPT ![t] = Append(@, FailureReply(local[t].exc))]
          /\ pc' = [pc EXCEPT ![t] = "done"]
          /\ UNCHANGED local
       \/ /\ Escape(t, "reply_text")
          /\ pc' = [pc EXCEPT ![t] = "raised"]
          /\ UNCHANGED delivered
    /\ UNCHANGED <<user_threads, threads, calls>>
    /\ UNCHANGED boot

TaskStep(t) ==
    \/ start_entry(t)
    \/ start_create(t)
    \/ greeting_done(t)
    \/ start_except(t)
    \/ apology_done(t)
    \/ handle_message_entry(t)
    \/ typing_done(t)
    \/ append_message(t)
    \/ start_run(t)
    \/ poll(t)
    \/ poll_on(t)
    \/ loop_exit(t)
    \/ list_messages(t)
    \/ extract_reply(t)
    \/ reply_done(t)
    \/ handle_except(t)
    \/ failure_reply_done(t)

Next ==
    \/ config_check
    \/ create_client
    \/ main
    \/ \E t \in Tasks : Dispatch(t) \/ TaskStep(t)

Spec == Init /\ [][Next]_vars

\* the event loop resumes every handler that can take a step, and time.sleep
\* and the remote calls return; nothing is assumed of what the run reports
LiveSpec == Spec /\ \A t \in Tasks : WF_vars(TaskStep(t))

(***************************************************************************)
(* Observations on an invocation's outbound calls                          *)
(***************************************************************************)
CallsOf(t, op) == SelectSeq(calls[t], LAMBDA c : c.op = op)
Replies(t) == [i \in DOMAIN CallsOf(t, "reply") |-> CallsOf(t, "reply")[i].text]
Count(t, op) == Len(CallsOf(t, op))

\* createThread failed in invocation t
FailedCreate(t) == \E i \in DOMAIN calls[t] : calls[t][i] = Call("createThread", 0, "")

\* in this step invocation t received thread id n from a successful createThread
SuccessfulCreate(t, n) ==
    /\ n > 0
    /\ \E i \in DOMAIN calls'[t] :
         i > Len(calls[t]) /\ calls'[t][i] = Call("createThread", n, "")

ThreadIds == 1..MaxTasks

(***************************************************************************)
(* C1: a start for chat c whose createThread succeeds leaves               *)
(* user_threads[c] equal to the id createThread returned, and the entry    *)
(* of c changes in no step other than a successful createThread for c.     *)
(***************************************************************************)
C1_BootstrapStoresThread ==
    [][\A c \in ChatIds :
         IF \E t \in Tasks, n \in ThreadIds : local[t].chat_id = c /\ SuccessfulCreate(t, n)
         THEN \A t \in Tasks, n \in ThreadIds :
                (local[t].chat_id = c /\ SuccessfulCreate(t, n))
                   => /\ c \in DOMAIN user_threads'
                      /\ user_threads'[c] = n
                      /\ n = Len(threads')
         ELSE c \in DOMAIN user_threads
                   => c \in DOMAIN user_threads' /\ user_threads'[c] = user_threads[c]
      ]_vars

C1_Witness ==
    \E t \in Tasks :
       /\ local[t].kind = "start" /\ pc[t] = "done"
       /\ calls[t][1].op = "createThread" /\ calls[t][1].thread = 2
       /\ user_threads[local[t].chat_id] = 2

(***************************************************************************)
(* C2: when createThread fails in start, no step of that invocation        *)
(* changes user_threads, the createThread exception is caught (the only    *)
(* exception that can leave the handler is a failure of the apology send)  *)
(* and the reply the handler sends is the fixed apology.                   *)
(***************************************************************************)
C2_State(t) ==
    /\ pc[t] \in {"start_except", "await_apology", "done", "raised"}
    /\ local[t].exc = "AssistantUnavailable"
    /\ Replies(t) = IF pc[t] = "start_except" THEN << >> ELSE <<APOLOGY>>
    /\ delivered[t] = IF pc[t] = "done" THEN <<APOLOGY>> ELSE << >>
    /\ pc[t] = "raised" => local[t].escaped = "reply_text"
    /\ Count(t, "createThread") = 1 /\ Len(calls[t]) = 1 + Len(Replies(t))

C2_CreateThreadFailure ==
    /\ [](\A t \in Tasks : FailedCreate(t) => C2_State(t))
    /\ [][(\E t \in Tasks : FailedCreate(t)') => user_threads' = user_threads]_vars

C2_Witness ==
    \E t \in Tasks :
       /\ FailedCreate(t) /\ pc[t] = "done" /\ delivered[t] = <<APOLOGY>>
       /\ local[t].chat_id \in DOMAIN user_threads

(***************************************************************************)
(* C3: when createThread succeeds for a chat c that already has an entry,  *)
(* returning a new id, user_threads[c] becomes the new id and the old id   *)
(* is stored under no key; no thread id is ever stored under two keys.     *)
(***************************************************************************)
C3_RebootstrapOverwrites ==
    /\ [][\A t \in Tasks, n \in ThreadIds :
            LET c == local[t].chat_id IN
            (c \in DOMAIN user_threads /\ SuccessfulCreate(t, n) /\ n # user_threads[c])
               => /\ user_threads'[c] = n
                  /\ \A k \in DOMAIN user_threads' : user_threads'[k] # user_threads[c]
         ]_vars
    /\ [](\A j, k \in DOMAIN user_threads : j # k => user_threads[j] # user_threads[k])

C3_Witness ==
    \E t \in Tasks :
       /\ pc[t] = "done" /\ local[t].kind = "start"
       /\ Len(threads) = 2 /\ DOMAIN user_threads = {local[t].chat_id}
       /\ user_threads[local[t].chat_id] = 2 /\ delivered[t] = <<GREETING>>

(***************************************************************************)
(* C4: handle_message for a chat without an entry runs the bootstrap and   *)
(* stops: one createThread call, no typing/appendMessage/startRun/         *)
(* getRunStatus/listMessages call, the text is not relayed, and, the       *)
(* platform accepting the send, the only reply is the greeting, or the     *)
(* apology if createThread failed.  (An apology can otherwise only follow  *)
(* a greeting that the platform refused.)                                  *)
(***************************************************************************)
\* no awaited platform call of invocation t has raised
PlatformOk(t) == local[t].escaped = "" /\ local[t].exc # "SendFailed"

C4_AutoBootstrapAndStop ==
    \A t \in Tasks :
       local[t].via_message =>
          /\ local[t].kind = "message" /\ local[t].thread_id = 0
          /\ local[t].seen = << >> /\ local[t].messages = << >>
          /\ pc[t] \in {"start", "await_greeting", "start_except", "await_apology",
                        "done", "raised"}
          /\ \A i \in DOMAIN calls[t] :
                /\ calls[t][i].op \in {"createThread", "reply"}
                /\ calls[t][i].text # local[t].user_text
          /\ Count(t, "createThread") = IF pc[t] = "start" THEN 0 ELSE 1
          /\ PlatformOk(t) =>
                /\ Replies(t) \in {<< >>, IF FailedCreate(t) THEN <<APOLOGY>>
                                                         ELSE <<GREETING>>}
                /\ delivered[t] = IF pc[t] = "done" THEN Replies(t) ELSE << >>
                /\ pc[t] = "done" => Len(Replies(t)) = 1
                /\ pc[t] # "raised"
          /\ ~PlatformOk(t) =>
                /\ Replies(t) \in {<<GREETING>>, <<APOLOGY>>, <<GREETING, APOLOGY>>}
                /\ delivered[t] \in {<< >>, <<APOLOGY>>}

C4_Witness ==
    \E t \in Tasks :
       /\ local[t].via_message /\ pc[t] = "done"
       /\ delivered[t] = <<GREETING>> /\ Len(calls[t]) = 2

(***************************************************************************)
(* C5: when the run of an invocation with a session was seen queued, then  *)
(* in_progress, then completed, and listMessages returned a list whose     *)
(* first (newest) entry starts with a text block, the reply the handler    *)
(* sends is that text, and the list is the thread's list at extraction.    *)
(***************************************************************************)
NewestHasText(m) ==
    Len(m) > 0 /\ Len(m[1].content) > 0 /\ m[1].content[1].type = "text"

C5_ReplyIsNewestText ==
    \A t \in Tasks :
       (/\ local[t].seen = <<"queued", "in_progress", "completed">>
        /\ NewestHasText(local[t].messages))
       => /\ Count(t, "listMessages") = 1
          /\ local[t].messages = threads[local[t].thread_id]
          /\ pc[t] \in {"extract", "await_reply", "done", "except",
                        "await_failure_reply", "raised"}
          /\ pc[t] # "extract" =>
                /\ Replies(t)[1] = local[t].messages[1].content[1].value
                /\ calls[t][Len(local[t].seen) + 4].op = "reply"
          /\ (pc[t] = "done" /\ local[t].exc = "") =>
                /\ Replies(t) = <<local[t].messages[1].content[1].value>>
                /\ delivered[t] = Replies(t)

C5_Witness ==
    \E t \in Tasks :
       /\ local[t].seen = <<"queued", "in_progress", "completed">>
       /\ pc[t] = "done"
       /\ Len(local[t].messages) = 2
       /\ local[t].messages[2].role = "user"
       /\ delivered[t] = <<"Hi Ada!">>

(***************************************************************************)
(* C6: once the run of an invocation is reported failed (by startRun or by *)
(* a poll) there is no further poll and no listMessages call, no thread    *)
(* text is read, and the only reply sent is the generic failure message.   *)
(***************************************************************************)
SawFailed(t) == \E i \in DOMAIN local[t].seen : local[t].seen[i] = "failed"

C6_FailedRun ==
    \A t \in Tasks :
       SawFailed(t) =>
          /\ local[t].seen[Len(local[t].seen)] = "failed"
          /\ Count(t, "getRunStatus") = Len(local[t].seen) - 1
          /\ Count(t, "listMessages") = 0
          /\ local[t].messages = << >> /\ local[t].response = ""
          /\ pc[t] \in {"loop", "except", "await_failure_reply", "done", "raised"}
          /\ Replies(t) = IF pc[t] \in {"loop", "except"} THEN << >> ELSE <<GENERIC>>
          /\ delivered[t] = IF pc[t] = "done" THEN <<GENERIC>> ELSE << >>

C6_Witness ==
    \E t \in Tasks :
       /\ local[t].seen = <<"queued", "failed">>
       /\ pc[t] = "done" /\ delivered[t] = <<GENERIC>>

(***************************************************************************)
(* C7: a failure of appendMessage, startRun, getRunStatus, listMessages or *)
(* of the extraction is caught in the handler: no relay call follows it,   *)
(* and the generic failure message, which carries no error detail, is the  *)
(* only reply the handler sends; the platform accepting that send, the     *)
(* handler returns normally with exactly that message delivered.  (The     *)
(* handler can raise only if the send of line 100 itself fails.)           *)
(***************************************************************************)
RelayFailure(t) ==
    /\ local[t].thread_id # 0
    /\ local[t].exc \in {"AssistantUnavailable", "InvalidThread", "MalformedContent"}

C7_RelayFailureCaught ==
    \A t \in Tasks :
       RelayFailure(t) =>
          /\ pc[t] \in {"except", "await_failure_reply", "done", "raised"}
          /\ calls[t][local[t].caught_after].op \in
                {"appendMessage", "startRun", "getRunStatus", "listMessages"}
          /\ Len(calls[t]) = local[t].caught_after + (IF pc[t] = "except" THEN 0 ELSE 1)
          /\ Replies(t) = IF pc[t] = "except" THEN << >> ELSE <<GENERIC>>
          /\ \A i \in DOMAIN calls[t] : calls[t][i].text # local[t].exc
          /\ delivered[t] = IF pc[t] = "done" THEN <<GENERIC>> ELSE << >>
          /\ pc[t] = "raised" => local[t].escaped = "reply_text"

C7_Witness ==
    \E t \in Tasks :
       /\ RelayFailure(t) /\ local[t].exc = "MalformedContent"
       /\ pc[t] = "done" /\ delivered[t] = <<GENERIC>>

(***************************************************************************)
(* C8: every status other than completed and failed leads to another poll: *)
(* listMessages is called, and thread text is sent, only after the status  *)
(* completed was observed.                                                 *)
(***************************************************************************)
C8_OnlyCompletedProceeds ==
    \A t \in Tasks :
       (Count(t, "listMessages") > 0 \/ local[t].response # "")
          => local[t].seen[Len(local[t].seen)] = "completed"

(***************************************************************************)
(* C9: while handle_message of one conversation is in its poll loop on a   *)
(* run that is queued or in_progress, the handler of a waiting update of   *)
(* another conversation can take a step.                                   *)
(***************************************************************************)
C9_OtherConversationProceeds ==
    \A a, b \in Tasks :
       (/\ pc[a] = "loop" /\ local[a].status \in NonTerminal
        /\ pc[b] = "pending" /\ local[b].chat_id # local[a].chat_id)
       => ENABLED (start_entry(b) \/ handle_message_entry(b))

(***************************************************************************)
(* C10: a failure to send the typing indicator is not fatal: an invocation *)
(* with a session that has ended has appended the message to the thread    *)
(* (or tried to) and has sent a reply.                                     *)
(***************************************************************************)
C10_TypingFailureNonFatal ==
    \A t \in Tasks :
       (Count(t, "typing") = 1 /\ pc[t] \in {"done", "raised"})
          => (Count(t, "appendMessage") = 1 /\ Len(Replies(t)) >= 1)

(***************************************************************************)
(* C11: two handle_message invocations of one chat can overlap so that     *)
(* both have read the same thread id, appended their message and started   *)
(* their run before either lists the messages: when one of them has        *)
(* started its run and not yet listed, the handler of a waiting message of *)
(* the same chat can be entered.                                           *)
(***************************************************************************)
C11_OverlapOnSameThread ==
    \A a, b \in Tasks :
       (/\ pc[a] = "loop" /\ local[a].thread_id # 0
        /\ pc[b] = "pending" /\ local[b].kind = "message"
        /\ local[b].chat_id = local[a].chat_id)
       => ENABLED handle_message_entry(b)

\* what holds instead: between appendMessage and the end of the extraction of
\* one invocation no other invocation is past its entry
C11_RelayNotInterleaved ==
    \A a, b \in Tasks :
       (a # b /\ pc[a] \in {"start_run", "loop", "list", "extract"})
          => pc[b] \in {"idle", "pending", "gone"}

(***************************************************************************)
(* C12: if any of the three configuration values is absent (unset or       *)
(* empty) the process fails at the check, before the assistant client is   *)
(* created, before a handler is registered and before any update is        *)
(* handled; if all three are present the check lets start-up proceed.      *)
(***************************************************************************)
Absent(v) == v = "None" \/ v = ""
Missing == {n \in ConfigNames : Absent(boot.env[n])}

C12_FailFast ==
    /\ Missing # {} =>
          /\ boot.phase \in {"check", "failed"}
          /\ ~boot.client /\ boot.handlers = {}
          /\ \A t \in Tasks : pc[t] = "idle" /\ calls[t] = << >>
          /\ threads = << >> /\ user_threads = << >>
    /\ Missing = {} =>
          /\ boot.phase # "failed" /\ ~boot.raised
          /\ boot.phase = "check" => ENABLED config_check
    /\ boot.raised <=> boot.phase = "failed"
    /\ boot.handlers # {} => boot.client

C12_Witness == Missing = {"ASSISTANT_ID"} /\ boot.phase = "failed" /\ boot.raised

C12_WitnessProceeds ==
    Missing = {} /\ boot.phase = "polling" /\ \E t \in Tasks : pc[t] = "done"

(***************************************************************************)
(* C13: when start-up fails on missing configuration, the values the error *)
(* report names are exactly the values that are missing.                   *)
(***************************************************************************)
C13_ReportNamesMissing ==
    boot.phase = "failed" => (boot.logged \cup boot.error) = Missing

(***************************************************************************)
(* C15: a successful handle_message invocation for a chat with a session   *)
(* issues, in this order: typing indicator, appendMessage(thread, text),   *)
(* startRun(thread, assistant id), zero or more getRunStatus on the run    *)
(* startRun returned, listMessages(thread), reply; every call uses the     *)
(* thread id read from user_threads at entry, the appended message has     *)
(* role user, and the typing indicator precedes the first poll.            *)
(***************************************************************************)
Polls(th, r, k) == [i \in 1..k |-> RunCall("getRunStatus", th, r)]

RelaySucceeded(t) ==
    /\ pc[t] = "done" /\ local[t].kind = "message" /\ ~local[t].via_message
    /\ local[t].exc = "" /\ local[t].escaped = ""

C15_Order ==
    \A t \in Tasks :
       RelaySucceeded(t) =>
          LET th == local[t].before[local[t].chat_id]
              k  == Len(calls[t]) - 5
          IN  /\ local[t].chat_id \in DOMAIN local[t].before
              /\ k >= 0
              /\ calls[t] =
                   <<Call("typing", 0, ""),
                     Call("appendMessage", th, local[t].user_text),
                     Call("startRun", th, boot.env["ASSISTANT_ID"])>>
                   \o Polls(th, NewRunId(t), k)
                   \o <<Call("listMessages", th, ""),
                        Call("reply", 0, local[t].response)>>

C15_AppendsAsUser ==
    \A t \in Tasks :
       (pc[t] = "append" /\ pc'[t] = "start_run") =>
          threads'[local[t].thread_id][1] =
             [role |-> "user", content |-> <<TextBlock(local[t].user_text)>>]

C15_RelayOrder == []C15_Order /\ [][C15_AppendsAsUser]_vars

C15_Witness ==
    \E t \in Tasks : RelaySucceeded(t) /\ Count(t, "getRunStatus") = 2

(***************************************************************************)
(* C16: the poll loop has no timeout.  Under fair scheduling an invocation *)
(* in the loop replies and terminates once the run has reported a status   *)
(* other than queued or in_progress; while the run reports queued or       *)
(* in_progress the invocation has not replied, can only poll again, and    *)
(* leaves the loop only on such a report (or on a poll that raises, which  *)
(* is no report).                                                          *)
(***************************************************************************)
C16_RepliesAfterTerminalReport ==
    \A t \in Tasks :
       (pc[t] = "loop" /\ ~LoopContinues(local[t].status))
          ~> (pc[t] \in {"done", "raised"} /\ Len(Replies(t)) >= 1)

C16_PollsWhileRunning ==
    \A t \in Tasks :
       (pc[t] = "loop" /\ LoopContinues(local[t].status)) =>
          /\ Replies(t) = << >> /\ delivered[t] = << >>
          /\ ENABLED (poll(t) \/ poll_on(t))
          /\ ~ENABLED loop_exit(t)

C16_LeavesOnlyOnReport ==
    \A t \in Tasks :
       (pc[t] = "loop" /\ pc'[t] # "loop") =>
          \/ ~LoopContinues(local[t].status)
          \/ pc'[t] = "except" /\ local'[t].exc = "AssistantUnavailable"
                /\ Len(local'[t].seen) = Len(local[t].seen)

C16_NoTimeout ==
    /\ C16_RepliesAfterTerminalReport
    /\ []C16_PollsWhileRunning
    /\ [][C16_LeavesOnlyOnReport]_vars

C16_Witness ==
    \E t \in Tasks :
       /\ pc[t] = "loop" /\ LoopContinues(local[t].status)
       /\ Len(local[t].seen) > MaxPolls

\* a deadline would make every invocation leave the loop
C16_LoopAlwaysLeft ==
    \A t \in Tasks : (pc[t] = "loop") ~> (pc[t] # "loop")

(***************************************************************************)
(* C17: whenever start replies with the fixed apology, user_threads is     *)
(* what it was when the invocation began, also when the failure is the     *)
(* sending of the greeting after createThread has succeeded.               *)
(***************************************************************************)
Apologised(t) ==
    /\ pc[t] \in {"await_apology", "done", "raised"}
    /\ \E i \in DOMAIN Replies(t) : Replies(t)[i] = APOLOGY

C17_ApologyLeavesRegistry ==
    \A t \in Tasks : Apologised(t) => user_threads = local[t].before

\* the part of C17 that holds: an apology after a failed createThread
C17_ApologyAfterFailedCreate ==
    \A t \in Tasks :
       (Apologised(t) /\ FailedCreate(t)) => user_threads = local[t].before

(***************************************************************************)
(* C18: registry frame and monotonicity.  A step of an invocation for chat *)
(* c changes the user_threads entry of no other chat; no step of a         *)
(* handle_message invocation that found a session changes user_threads;    *)
(* a chat that has an entry keeps one in every later state; and each chat  *)
(* with an entry is mapped to exactly one thread id.                       *)
(***************************************************************************)
EntryChanged(c) ==
    /\ c \in DOMAIN user_threads'
    /\ c \notin DOMAIN user_threads \/ user_threads'[c] # user_threads[c]

Acts(t) == pc'[t] # pc[t] /\ pc'[t] # "gone"

C18_Frame ==
    /\ \A c \in ChatIds :
          EntryChanged(c) =>
             \E t \in Tasks : Acts(t) /\ local[t].chat_id = c /\ pc[t] = "start"
    /\ \A t \in Tasks :
          (Acts(t) /\ local[t].kind = "message" /\ ~local'[t].via_message)
             => user_threads' = user_threads
    /\ DOMAIN user_threads \subseteq DOMAIN user_threads'

C18_OneThreadPerChat ==
    /\ DOMAIN user_threads \subseteq ChatIds
    /\ \A c \in DOMAIN user_threads : user_threads[c] \in 1..Len(threads)

C18_RegistryFrame == []C18_OneThreadPerChat /\ [][C18_Frame]_vars

C18_Witness ==
    /\ DOMAIN user_threads = ChatIds
    /\ \E t \in Tasks :
          /\ pc[t] = "done" /\ local[t].kind = "message" /\ ~local[t].via_message
          /\ local[t].before = user_threads

(***************************************************************************)
(* C19: provided no send to the platform fails, every invocation of start  *)
(* or handle_message that has terminated has sent exactly one reply, and   *)
(* the reply is the greeting, the bootstrap apology, the generic failure   *)
(* message, or the text extracted from the newest message of the thread.   *)
(***************************************************************************)
C19_Terminated(t) == pc[t] \in {"done", "raised"} /\ PlatformOk(t)

C19_ExactlyOneReply ==
    \A t \in Tasks :
       C19_Terminated(t) =>
          /\ pc[t] = "done"
          /\ Len(Replies(t)) = 1
          /\ delivered[t] = Replies(t)
          /\ \/ Replies(t)[1] \in {GREETING, APOLOGY, GENERIC}
             \/ /\ Extractable(local[t].messages)
                /\ Replies(t)[1] = ExtractText(local[t].messages)
          /\ Replies(t)[1] \in {GREETING, APOLOGY} <=>
                (local[t].kind = "start" \/ local[t].via_message)

C19_Witness ==
    \E t \in Tasks :
       /\ C19_Terminated(t) /\ local[t].exc = "MalformedContent"
       /\ Replies(t) = <<GENERIC>>

(***************************************************************************)
(* C20: the run status is tested before each wait.  The number of          *)
(* getRunStatus calls equals the number of observed statuses that were     *)
(* queued or in_progress; a run that startRun returns as completed or      *)
(* failed causes no getRunStatus call; and the failed check is made only   *)
(* after the loop has exited.                                              *)
(***************************************************************************)
Waiting(seen) == {i \in DOMAIN seen : seen[i] \in NonTerminal}

C20_Counts ==
    \A t \in Tasks :
       local[t].seen # << >> =>
          LET seen == local[t].seen
              n    == Len(seen)
          IN  /\ \A i \in 1..(n - 1) : seen[i] \in NonTerminal
              /\ pc[t] = "loop" => Count(t, "getRunStatus") = n - 1
              /\ pc[t] # "loop" => Count(t, "getRunStatus") = Cardinality(Waiting(seen))
              /\ seen[1] \notin NonTerminal => Count(t, "getRunStatus") = 0
              /\ local[t].exc = "RunFailed" =>
                    seen[n] = "failed" /\ Count(t, "getRunStatus") = n - 1

C20_FailedCheckAfterLoop ==
    \A t \in Tasks :
       (local[t].exc # "RunFailed" /\ local'[t].exc = "RunFailed") =>
          /\ pc[t] = "loop" /\ ~LoopContinues(local[t].status)
          /\ calls'[t] = calls[t]

C20_TestBeforeWait == []C20_Counts /\ [][C20_FailedCheckAfterLoop]_vars

C20_Witness ==
    \E t \in Tasks :
       /\ local[t].exc = "RunFailed" /\ local[t].seen = <<"failed">>
       /\ Count(t, "getRunStatus") = 0 /\ pc[t] = "done"

C20_WitnessPolled ==
    \E t \in Tasks :
       /\ pc[t] = "done" /\ local[t].seen = <<"queued", "in_progress", "completed">>
       /\ Count(t, "getRunStatus") = 2

====
